---- MODULE Spec2Model ----
(***************************************************************************)
(* FortiMeet backend (src/main.py): meeting records with a time-limited    *)
(* invite code, kept in the "meeting" collection of a document store.      *)
(* Three mutating handlers: create_meeting, join_meeting, end_meeting.     *)
(*                                                                         *)
(* A handler is modelled as the sequence of its store accesses, each one   *)
(* step together with the local computation around it.  The handlers are   *)
(* coroutines that never await, so one server process runs each of them to *)
(* its end before it takes the next request: that is SeqSpec.  Several     *)
(* server processes on the same database interleave the store accesses of  *)
(* their requests: that is Spec.                                           *)
(***************************************************************************)
EXTENDS Integers, Sequences, FiniteSets, Bags, TLC

(* ------------------------------ bounds --------------------------------- *)
\* Largest clock reading (minutes) the model explores.
MaxTime == 1
\* Number of ObjectIds the model lets the process draw (two per meeting).
MaxOid == 4

\* Server workers: each serves one request at a time, so as many requests
\* are in flight at once as there are workers.
Workers == {"w1", "w2"}
Emails == {"a@x.com", "b@x.com"}
Hosts == {"h@x.com"}
Titles == {"None"}

(* ----------------------- program constants ----------------------------- *)
\* CreateMeetingRequest.ttl_minutes default.
DefaultTtl == 120
\* Range of datetime (scaled to the model's minutes): a sum outside it is
\* an OverflowError of `datetime + timedelta`.
DatetimeMin == -1000
DatetimeMax == 1000
\* ttl_minutes values a client sends: negative, zero, the default, and one
\* that takes now + ttl out of datetime's range.
Ttls == {-1, 0, DefaultTtl, 5000}

VARIABLES
    store,        \* db["meeting"]: the set of stored meeting documents
    now,          \* the wall clock, in minutes
    nextOid,      \* ObjectIds drawn so far (ObjectId() never repeats)
    inflight,     \* the requests inside a handler: a bag of [pc, req, meeting],
                  \*   pc the next step, req the payload, meeting the local
                  \*   `meeting` (the fields the rest of the handler reads)
    returned,     \* the request answered by the latest step: its payload, its
                  \*   response, the handler's local `meeting`, and the
                  \*   emails its write removed from the stored participants
    createLog,    \* history: invite code and id each successful create returned
    endedOk       \* history: invite codes for which an end request returned ok

vars == <<store, now, nextOid, inflight, returned, createLog, endedOk>>

(* ------------------------------ helpers -------------------------------- *)
\* str(ObjectId): the 24-hex-digit text of an ObjectId.
ToStr(oid) == <<"oid", oid>>

\* datetime.isoformat()
IsoFormat(t) == <<"iso", t>>

NoReq == [kind |-> "none"]
NoResp == [status |-> 0]
NoMeeting == [_id |-> 0]
\* No request was answered by the latest step.
NoReturn == [req |-> NoReq, resp |-> NoResp, meeting |-> NoMeeting, dropped |-> {}]

\* list(s) of a Python set: the elements once each, in an order the hash
\* seed decides.
ListOf(S) ==
    {q \in [1..Cardinality(S) -> S] : \A i, j \in 1..Cardinality(S) : i # j => q[i] # q[j]}

\* set(l) of a Python list.
SetOf(l) == {l[i] : i \in 1..Len(l)}

\* timedelta/datetime arithmetic of line 62; OverflowError outside the range.
Overflows(t) == t < DatetimeMin \/ t > DatetimeMax

\* expires_at = datetime.now(timezone.utc) + timedelta(minutes=ttl_minutes)
ExpiresAt(t, ttl) == t + ttl

\* get_documents("meeting", {"invite_code": code}, limit=1): the possible
\* result lists, at most one document long.
get_documents(st, code) ==
    LET hit == {m \in st : m.invite_code = code}
    IN  IF hit = {} THEN {<< >>} ELSE {<<m>> : m \in hit}

\* create_document("meeting", data): inserts data under a fresh _id with
\* created_at / updated_at stamped.
create_document(st, oid, data, t) ==
    st \cup {[_id |-> oid,
              title |-> data.title,
              host_email |-> data.host_email,
              invite_code |-> data.invite_code,
              expires_at |-> data.expires_at,
              status |-> data.status,
              participants |-> data.participants,
              created_at |-> t,
              updated_at |-> t]}

\* `if not docs:`
NotFound(d) == d = << >>

\* `meeting.get("status") != "active"`
NotActive(m) == m.status # "active"

\* `meeting.get("expires_at") and meeting["expires_at"] < datetime.now(timezone.utc)`
\* (a stored datetime is always truthy)
Expired(m, t) == m.expires_at < t

\* Mutant: the email is appended to the list read, with no set in between.
AddParticipant_append(parts, email) == {Append(parts, email)}

\* Mutant: the list written holds the joining email alone.
AddParticipant_only(parts, email) == {<<email>>}

\* participants = set(meeting.get("participants", [])); participants.add(email);
\* list(participants): the possible lists written.
AddParticipant(parts, email) == ListOf(SetOf(parts) \cup {email})

\* Mutant: the filter is lost, every document gets the participants.
SetParticipants_all(st, id, parts, t) ==
    {[m EXCEPT !.participants = parts, !.updated_at = t] : m \in st}

\* Mutant: the update is an upsert, a missing document is written anew.
SetParticipants_upsert(st, id, parts, t) ==
    IF \E m \in st : m._id = id
      THEN {IF m._id = id THEN [m EXCEPT !.participants = parts, !.updated_at = t] ELSE m : m \in st}
      ELSE st \cup {[_id |-> id, title |-> "None", host_email |-> "h@x.com",
                     invite_code |-> ToStr(id - 1), expires_at |-> t,
                     status |-> "active", participants |-> parts,
                     created_at |-> t, updated_at |-> t]}

\* Mutant: a join extends the invite, expires_at slides with the write.
SetParticipants_refresh(st, id, parts, t) ==
    {IF m._id = id
       THEN [m EXCEPT !.participants = parts, !.updated_at = t, !.expires_at = t + DefaultTtl]
       ELSE m : m \in st}

\* Mutant: the update is an atomic $addToSet on the stored list.
SetParticipants_addToSet(st, id, parts, t) ==
    {IF m._id = id
       THEN LET NotStored(e) == e \notin SetOf(m.participants)
            IN  [m EXCEPT !.participants = m.participants \o SelectSeq(parts, NotStored),
                          !.updated_at = t]
       ELSE m : m \in st}

\* The emails that update_one({"_id": id}, {"$set": {"participants": parts}})
\* removes from the stored participants: those stored and not in parts.
Dropped(st, id, parts) ==
    UNION {SetOf(m.participants) \ SetOf(parts) : m \in {d \in st : d._id = id}}

\* db["meeting"].update_one({"_id": id}, {"$set": {"participants": .., "updated_at": ..}})
\* updates the document with that _id if there is one, and nothing otherwise.
SetParticipants(st, id, parts, t) ==
    {IF m._id = id THEN [m EXCEPT !.participants = parts, !.updated_at = t] ELSE m : m \in st}

\* db["meeting"].update_one({"_id": id}, {"$set": {"status": "ended", "updated_at": ..}})
SetEnded(st, id, t) ==
    {IF m._id = id THEN [m EXCEPT !.status = "ended", !.updated_at = t] ELSE m : m \in st}

\* Mutant: the document is kept (marked ended, not deleted).
DeleteOne_keeps(st, id) == st

\* db["meeting"].delete_one({"_id": id})
DeleteOne(st, id) == {m \in st : m._id # id}

\* Mutant: an unknown invite is reported as expired.
InviteNotFound_as410 == [status |-> 410, detail |-> "Invite expired"]

\* HTTPException(status_code=404, detail="Invite not found")
InviteNotFound == [status |-> 404, detail |-> "Invite not found"]
\* HTTPException(status_code=400, detail="Meeting not active")
MeetingNotActive == [status |-> 400, detail |-> "Meeting not active"]
\* HTTPException(status_code=410, detail="Invite expired")
InviteExpired == [status |-> 410, detail |-> "Invite expired"]
\* Mutant: ending a meeting that is not there is answered ok.
MeetingNotFound_asOk == [status |-> 200, ok |-> TRUE]

\* HTTPException(status_code=404, detail="Meeting not found")
MeetingNotFound == [status |-> 404, detail |-> "Meeting not found"]
\* an exception no handler catches: the framework answers 500
InternalError == [status |-> 500, detail |-> "Internal Server Error"]

\* Mutant: the expiry is checked before the status.
JoinReject_expiryFirst(d, t) ==
    IF d = << >> THEN [status |-> 404, detail |-> "Invite not found"]
    ELSE IF d[1].expires_at < t THEN [status |-> 410, detail |-> "Invite expired"]
    ELSE IF d[1].status # "active" THEN [status |-> 400, detail |-> "Meeting not active"]
    ELSE [status |-> 0]

\* Lines 79-85 of join_meeting: the HTTPException raised for the documents d
\* read at clock reading t, NoResp when none is raised.
JoinReject(d, t) ==
    IF NotFound(d) THEN InviteNotFound
    ELSE IF NotActive(d[1]) THEN MeetingNotActive
    ELSE IF Expired(d[1], t) THEN InviteExpired
    ELSE NoResp

\* {"ok": True, "meeting_id": str(meeting["_id"])}
JoinOk(m) == [status |-> 200, ok |-> TRUE, meeting_id |-> ToStr(m._id)]
\* {"ok": True}
EndOk == [status |-> 200, ok |-> TRUE]
\* {"id": meeting_id, "invite_code": invite_code, "expires_at": expires_at.isoformat()}
CreateOk(oid, code, exp) ==
    [status |-> 200, id |-> ToStr(oid), invite_code |-> code, expires_at |-> IsoFormat(exp)]

\* Mutant: every meeting gets the same invite code.
NewInviteCode_fixed(n) == ToStr(1)

\* invite_code = ObjectId().__str__(), n ObjectIds having been drawn before.
NewInviteCode(n) == ToStr(n + 1)

\* Invite codes a client can send: every code the process can issue (the odd
\* draws; the even ones become _ids), and one that is never issued.
Codes == {ToStr(n) : n \in {k \in 0..(MaxOid - 1) : k = 0 \/ k % 2 = 1}}

(* ------------------------------- Init ---------------------------------- *)
Init ==
    /\ store = {}
    /\ now = 0
    /\ nextOid = 0
    /\ inflight = EmptyBag
    /\ returned = NoReturn
    /\ createLog = {}
    /\ endedOk = {}

\* A worker is free to take a request.
WorkerFree == BagCardinality(inflight) < Cardinality(Workers)

\* The requests in flight that are at step l.
At(l) == {r \in BagToSet(inflight) : r.pc = l}

InFlight(l, payload, m) == SetToBag({[pc |-> l, req |-> payload, meeting |-> m]})

\* meeting = docs[0] in join_meeting: lines 87-90 read its participants and _id.
JoinMeeting(d) == [_id |-> d[1]._id, participants |-> d[1].participants]

\* meeting = docs[0] in end_meeting: lines 98-100 read its _id.
EndMeeting(d) == [_id |-> d[1]._id]

\* Payload r is answered with response x by a handler whose local meeting is m.
Return(r, x, m) == returned' = [req |-> r, resp |-> x, meeting |-> m, dropped |-> {}]

\* The same for a step whose write removed the emails gone from the stored
\* participants.
ReturnWrite(r, x, m, gone) ==
    returned' = [req |-> r, resp |-> x, meeting |-> m, dropped |-> gone]

(* ------------------------- health, diagnostics ------------------------- *)
\* {"message": "FortiMeet backend running"}
RootOk == [status |-> 200, message |-> "FortiMeet backend running"]

\* The diagnostics of GET /test with the database connected: the collection
\* names are listed, the "meeting" collection exists once a document was
\* inserted into it.
TestOk(collections) ==
    [status |-> 200, backend |-> "Running", database |-> "Connected & Working",
     connection_status |-> "Connected", collections |-> collections]

\* db.list_collection_names()
list_collection_names == IF nextOid = 0 THEN << >> ELSE <<"meeting">>

\* Lines 29-31: GET / answers a fixed message.
Root ==
    /\ WorkerFree
    /\ Return([kind |-> "root"], RootOk, NoMeeting)
    /\ UNCHANGED <<store, now, nextOid, inflight, createLog, endedOk>>

\* Lines 33-57: GET /test reads the collection names and answers the
\* diagnostics; it writes nothing.
TestDatabase ==
    /\ WorkerFree
    /\ Return([kind |-> "test"], TestOk(list_collection_names), NoMeeting)
    /\ UNCHANGED <<store, now, nextOid, inflight, createLog, endedOk>>

(* --------------------------- create_meeting ---------------------------- *)
\* Lines 60-73: the payload arrives, expires_at is computed from the clock,
\* the invite code is drawn, the Meeting is inserted and the response
\* returned.  The handler touches the store once, so it is one step.
CreateMeeting ==
    /\ WorkerFree
    /\ \E h \in Hosts, ti \in Titles, ttl \in Ttls :
         LET payload == [kind |-> "create", host_email |-> h, title |-> ti, ttl_minutes |-> ttl]
             expires_at == ExpiresAt(now, ttl)
             invite_code == NewInviteCode(nextOid)
             oid == nextOid + 2
             data == [title |-> payload.title,
                      host_email |-> payload.host_email,
                      invite_code |-> invite_code,
                      expires_at |-> expires_at,
                      status |-> "active",
                      participants |-> << >>]
         IN  IF Overflows(expires_at)
               THEN /\ Return(payload, InternalError, NoMeeting)
                    /\ UNCHANGED <<store, nextOid, createLog>>
               ELSE /\ oid <= MaxOid
                    /\ nextOid' = oid
                    /\ store' = create_document(store, oid, data, now)
                    /\ Return(payload, CreateOk(oid, invite_code, expires_at), NoMeeting)
                    /\ createLog' = createLog \cup {[invite_code |-> invite_code, id |-> ToStr(oid)]}
    /\ UNCHANGED <<now, inflight, endedOk>>

(* ---------------------------- join_meeting ----------------------------- *)
\* Lines 76-85: the payload arrives, the meeting is looked up, its status
\* and its expiry are checked (the clock is read as the lookup returns).
JoinRead ==
    /\ WorkerFree
    /\ \E e \in Emails, c \in Codes : \E d \in get_documents(store, c) :
         LET payload == [kind |-> "join", email |-> e, invite_code |-> c]
             reject == JoinReject(d, now)
         IN  IF reject # NoResp
               THEN Return(payload, reject, NoMeeting) /\ UNCHANGED inflight
               ELSE /\ inflight' = inflight (+) InFlight("join_write", payload, JoinMeeting(d))
                    /\ returned' = NoReturn
    /\ UNCHANGED <<store, now, nextOid, createLog, endedOk>>

\* Lines 86-90: the participant list is rebuilt from the document read and
\* written back; the response is returned.
JoinWrite ==
    /\ \E r \in At("join_write") :
         LET meeting == r.meeting
         IN  /\ \E parts \in AddParticipant(meeting.participants, r.req.email) :
                  /\ store' = SetParticipants(store, meeting._id, parts, now)
                  /\ ReturnWrite(r.req, JoinOk(meeting), meeting, Dropped(store, meeting._id, parts))
             /\ inflight' = inflight (-) SetToBag({r})
    /\ UNCHANGED <<now, nextOid, createLog, endedOk>>

(* ----------------------------- end_meeting ----------------------------- *)
\* Lines 93-97: the invite code arrives, the meeting is looked up.
EndLookup ==
    /\ WorkerFree
    /\ \E c \in Codes : \E d \in get_documents(store, c) :
         LET payload == [kind |-> "end", invite_code |-> c]
         IN  IF NotFound(d)
               THEN Return(payload, MeetingNotFound, NoMeeting) /\ UNCHANGED inflight
               ELSE /\ inflight' = inflight (+) InFlight("end_update", payload, EndMeeting(d))
                    /\ returned' = NoReturn
    /\ UNCHANGED <<store, now, nextOid, createLog, endedOk>>

\* Line 98: the status is set to ended.
EndUpdate ==
    /\ \E r \in At("end_update") :
         /\ store' = SetEnded(store, r.meeting._id, now)
         /\ inflight' = (inflight (-) SetToBag({r})) (+) InFlight("end_delete", r.req, r.meeting)
    /\ returned' = NoReturn
    /\ UNCHANGED <<now, nextOid, createLog, endedOk>>

\* Lines 99-101: the document is deleted, ok is returned.
EndDelete ==
    /\ \E r \in At("end_delete") :
         /\ store' = DeleteOne(store, r.meeting._id)
         /\ inflight' = inflight (-) SetToBag({r})
         /\ Return(r.req, EndOk, r.meeting)
         /\ endedOk' = endedOk \cup {r.req.invite_code}
    /\ UNCHANGED <<now, nextOid, createLog>>

(* -------------------------------- clock -------------------------------- *)
\* Mutant: a sweep removes the expired meetings as the clock advances.
Tick_reaper ==
    /\ now < MaxTime
    /\ now' = now + 1
    /\ store' = {m \in store : ~Expired(m, now + 1)}
    /\ returned' = NoReturn
    /\ UNCHANGED <<nextOid, inflight, createLog, endedOk>>

\* datetime.now(timezone.utc) advances.
Tick ==
    /\ now < MaxTime
    /\ now' = now + 1
    /\ returned' = NoReturn
    /\ UNCHANGED <<store, nextOid, inflight, createLog, endedOk>>

(* --------------------------- specifications ---------------------------- *)
Next ==
    \/ Tick
    \/ Root
    \/ TestDatabase
    \/ CreateMeeting
    \/ JoinRead
    \/ JoinWrite
    \/ EndLookup
    \/ EndUpdate
    \/ EndDelete

Spec == Init /\ [][Next]_vars

\* Requests run one at a time: a request is taken only when none is in
\* flight.
OneAtATime == inflight = EmptyBag

SeqNext ==
    \/ Tick
    \/ OneAtATime /\ Root
    \/ OneAtATime /\ TestDatabase
    \/ OneAtATime /\ CreateMeeting
    \/ OneAtATime /\ JoinRead
    \/ JoinWrite
    \/ OneAtATime /\ EndLookup
    \/ EndUpdate
    \/ EndDelete

SeqSpec == Init /\ [][SeqNext]_vars

(* ------------------------- observing requests ------------------------- *)
\* The stored documents with invite code c.
Matching(c) == {m \in store : m.invite_code = c}

\* This step takes request r into flight at step l.
Enters(l, r) ==
    /\ r.pc = l
    /\ r \in BagToSet(inflight')
    /\ CopiesIn(r, inflight') > CopiesIn(r, inflight)

\* This step takes a request out of flight.
Leaves == BagCardinality(inflight') < BagCardinality(inflight)

\* This step is the lookup of a join request with invite code c: the request
\* is answered at once or goes on to its write.
JoinTaken(c) ==
    \/ /\ returned'.req.kind = "join"
       /\ returned'.req.invite_code = c
       /\ ~Leaves
    \/ \E r \in BagToSet(inflight') : Enters("join_write", r) /\ r.req.invite_code = c

\* This step is the lookup of an end request with invite code c.
EndTaken(c) ==
    \/ /\ returned'.req.kind = "end"
       /\ returned'.req.invite_code = c
       /\ ~Leaves
    \/ \E r \in BagToSet(inflight') : Enters("end_update", r) /\ r.req.invite_code = c

\* Answer x is the HTTP error with this status code and detail.
Answered(x, code, detail) ==
    /\ x.resp.status = code
    /\ x.resp.status # 200
    /\ x.resp.detail = detail

\* The latest step answered a join request / an end request / a create request.
JoinReturned == returned.req.kind = "join"
EndReturned == returned.req.kind = "end"
CreateReturned == returned.req.kind = "create"

(* ------------------------------- claims -------------------------------- *)
\* C1: a join request whose invite code matches no stored meeting is
\* answered 404 "Invite not found" and leaves the store as it was, whatever
\* else is stored and whatever the clock reads.
C1_UnknownInviteIs404 ==
    [][\A c \in Codes :
         (JoinTaken(c) /\ Matching(c) = {})
            => (Answered(returned', 404, "Invite not found") /\ store' = store)]_vars

\* A join was answered 404 while another meeting, already joined, is stored.
C1_Witness ==
    /\ JoinReturned
    /\ Answered(returned, 404, "Invite not found")
    /\ Matching(returned.req.invite_code) = {}
    /\ \E m \in store : m.participants # << >>

\* C2: once an end request for an invite code has returned ok, every join
\* request looked up afterwards with that code is answered 404 (not 400,
\* not 410).
C2_JoinAfterEndIs404 ==
    [][\A c \in Codes :
         (JoinTaken(c) /\ c \in endedOk) => Answered(returned', 404, "Invite not found")]_vars

\* A join for an ended meeting's code was answered 404.
C2_Witness ==
    /\ JoinReturned
    /\ returned.req.invite_code \in endedOk
    /\ Answered(returned, 404, "Invite not found")

\* C3: once an end request for an invite code has returned ok, every end
\* request looked up afterwards with that code is answered 404 "Meeting not
\* found" and changes nothing in the store.
C3_EndAfterEndIs404 ==
    [][\A c \in Codes :
         (EndTaken(c) /\ c \in endedOk)
            => (Answered(returned', 404, "Meeting not found") /\ store' = store)]_vars

\* An end for an ended meeting's code was answered 404 while another meeting
\* is stored.
C3_Witness ==
    /\ EndReturned
    /\ returned.req.invite_code \in endedOk
    /\ Answered(returned, 404, "Meeting not found")
    /\ store # {}

\* The number of entries of list l equal to x.
Count(l, x) == Cardinality({i \in 1..Len(l) : l[i] = x})

\* The latest step answered a join request with ok.
JoinSucceeded == JoinReturned /\ returned.resp.status = 200

\* The latest step answered ok a join whose email was already among the
\* participants the handler read: a second join with that email.
Rejoined == JoinSucceeded /\ returned.req.email \in SetOf(returned.meeting.participants)

\* C4: with requests served one after the other, a successful join with an
\* email that already joined leaves the participants what the first join
\* left them: the same emails, as many entries, one entry for that email.
C4_RejoinIdempotent ==
    Rejoined =>
        \E m \in Matching(returned.req.invite_code) :
            /\ SetOf(m.participants) = SetOf(returned.meeting.participants)
            /\ Len(m.participants) = Len(returned.meeting.participants)
            /\ Count(m.participants, returned.req.email) = 1

\* A second join with the same email succeeded on a meeting that another
\* email joined too.
C4_Witness ==
    /\ Rejoined
    /\ \E m \in Matching(returned.req.invite_code) : Len(m.participants) = 2

\* C5: in every reachable state, under any interleaving of create, join and
\* end requests, no stored participants list holds an email twice.
C5_ParticipantsDistinct ==
    \A m \in store : \A e \in Emails : Count(m.participants, e) <= 1

\* A second join with the same email has just been written while another
\* request is in flight.
C5_Witness ==
    /\ Rejoined
    /\ inflight # EmptyBag
    /\ \E m \in Matching(returned.req.invite_code) :
          Count(m.participants, returned.req.email) = 1

\* The latest step answered ok a create request with this ttl_minutes.
Created(ttl) ==
    /\ CreateReturned
    /\ returned.resp.status = 200
    /\ returned.req.ttl_minutes = ttl

\* C6: a meeting created with ttl_minutes = 0 has expires_at equal to its
\* creation time, and a join taken right after the create returned, with no
\* request in between, is answered 410 "Invite expired" and adds no
\* participant, also when the join reads the clock value the create read.
C6_ZeroTtlJoinExpired ==
    /\ [](Created(0) =>
            \E m \in Matching(returned.resp.invite_code) : m.expires_at = now)
    /\ [][(Created(0) /\ JoinTaken(returned.resp.invite_code))
            => (Answered(returned', 410, "Invite expired") /\ store' = store)]_vars

\* This step takes a request out of flight at step l and answers it.
Finishes(l) == Leaves /\ \E r \in At(l) : CopiesIn(r, inflight') < CopiesIn(r, inflight)

\* C7: the outcome of a join is decided by the document its lookup reads,
\* in this order: 404 when no document has the invite code; else 400 when
\* the document's status is not active; else 410 when its expires_at is
\* before the clock reading; else the join goes on to its write, and that
\* write always answers ok: a join on an active, unexpired meeting never
\* fails.
C7_JoinPrecedence ==
    [][/\ \A c \in Codes :
            JoinTaken(c) =>
               IF Matching(c) = {}
                 THEN Answered(returned', 404, "Invite not found")
                 ELSE \E m \in Matching(c) :
                        IF m.status # "active"
                          THEN Answered(returned', 400, "Meeting not active")
                        ELSE IF m.expires_at < now
                          THEN Answered(returned', 410, "Invite expired")
                        ELSE \E r \in BagToSet(inflight') :
                               /\ Enters("join_write", r)
                               /\ r.req.invite_code = c
                               /\ r.meeting._id = m._id
       /\ Finishes("join_write") =>
            (returned'.req.kind = "join" /\ returned'.resp.status = 200 /\ returned'.resp.ok)
      ]_vars

\* A join was answered 400 on a meeting that is marked ended and is past
\* its expiry as well: not-active goes before expired.
C7_Witness ==
    /\ JoinReturned
    /\ Answered(returned, 400, "Meeting not active")
    /\ \E m \in Matching(returned.req.invite_code) : m.status = "ended" /\ m.expires_at < now

\* C8: with requests served one at a time, a join that succeeds answers
\* ok = true and the id that create returned for that invite code, and right
\* after it the meeting's participants hold the joining email and every
\* email they held before the join.
C8_JoinAddsParticipant ==
    [][Finishes("join_write") =>
         /\ returned'.resp.status = 200
         /\ returned'.resp.ok
         /\ \E entry \in createLog :
               /\ entry.invite_code = returned'.req.invite_code
               /\ entry.id = returned'.resp.meeting_id
         /\ \E m \in Matching(returned'.req.invite_code) :
               \E m2 \in store' :
                  /\ m2._id = m._id
                  /\ m2.invite_code = m.invite_code
                  /\ SetOf(m.participants) \cup {returned'.req.email} \subseteq SetOf(m2.participants)
      ]_vars

\* A join by a second email succeeded: the meeting now holds both.
C8_Witness ==
    /\ JoinSucceeded
    /\ returned.meeting.participants # << >>
    /\ ~Rejoined
    /\ \E m \in Matching(returned.req.invite_code) : Len(m.participants) = 2

\* C9: every create request succeeds, for any integer ttl_minutes: it adds
\* exactly one record, active, with no participants and expires_at = clock
\* reading + ttl_minutes, leaves the records already stored as they were,
\* and returns the new record's id, invite code and expires_at.
C9_CreateAlwaysSucceeds ==
    [][returned'.req.kind = "create" =>
         /\ returned'.resp.status = 200
         /\ store \subseteq store'
         /\ \E m \in store' \ store :
               /\ store' = store \cup {m}
               /\ m.status = "active"
               /\ m.participants = << >>
               /\ m.expires_at = now + returned'.req.ttl_minutes
               /\ m.host_email = returned'.req.host_email
               /\ m.title = returned'.req.title
               /\ returned'.resp.id = ToStr(m._id)
               /\ returned'.resp.invite_code = m.invite_code
               /\ returned'.resp.expires_at = IsoFormat(m.expires_at)
      ]_vars

\* C10: the ended status is never observed: no join or end lookup reads a
\* document whose status is ended, under any interleaving with the two
\* store writes of an end request, and no join is answered 400 "Meeting not
\* active".
C10_EndedNeverObserved ==
    [][/\ \A c \in Codes :
            (JoinTaken(c) \/ EndTaken(c)) => \A m \in Matching(c) : m.status # "ended"
       /\ ~(returned'.req.kind = "join" /\ Answered(returned', 400, "Meeting not active"))
      ]_vars

\* This step answers ok an end request for invite code c.
EndOkFor(c) ==
    /\ returned'.req.kind = "end"
    /\ returned'.req.invite_code = c
    /\ returned'.resp.status = 200

\* C11: a meeting is ended once: at most one end request for an invite code
\* ever returns ok, also when several run at the same time; an end request
\* returns ok only for a code no end has returned ok for yet.
C11_EndedExactlyOnce ==
    [][\A c \in Codes : EndOkFor(c) => c \notin endedOk]_vars

\* C13: in every reachable state no two stored meetings have the same
\* invite code (each create draws an ObjectId never drawn before), so a
\* lookup by invite code matches at most one document.
C13_InviteCodeUnique ==
    /\ \A m1, m2 \in store : m1.invite_code = m2.invite_code => m1 = m2
    /\ \A c \in Codes : \A d1, d2 \in get_documents(store, c) : d1 = d2

\* Two meetings are stored, under different invite codes.
C13_Witness ==
    \E m1, m2 \in store : m1 # m2 /\ m1.invite_code # m2.invite_code

\* Documents m and m2 agree on every field but participants and updated_at.
SameButParticipants(m, m2) ==
    /\ m2._id = m._id
    /\ m2.title = m.title
    /\ m2.host_email = m.host_email
    /\ m2.invite_code = m.invite_code
    /\ m2.expires_at = m.expires_at
    /\ m2.status = m.status
    /\ m2.created_at = m.created_at

\* This step is the write of the join request r in flight.
JoinWrites(r) ==
    /\ r \in At("join_write")
    /\ CopiesIn(r, inflight') < CopiesIn(r, inflight)

\* C15: a join changes nothing but the participants and updated_at of the
\* one document its lookup returned: its lookup step writes nothing, a
\* rejected join (404, 400, 410) writes nothing, and its write step leaves
\* every other document as it was and the other fields of that document as
\* they were, and neither adds nor removes a document.
C15_JoinFrame ==
    [][/\ (\E c \in Codes : JoinTaken(c)) => store' = store
       /\ \A r \in BagToSet(inflight) :
            JoinWrites(r) =>
               /\ \A m \in store :
                    IF m._id = r.meeting._id
                      THEN \E m2 \in store' : SameButParticipants(m, m2)
                      ELSE m \in store'
               /\ \A m2 \in store' : \E m \in store : m._id = m2._id
               /\ Cardinality(store') = Cardinality(store)
      ]_vars

\* A join has just written its participant into one of two stored meetings.
C15_Witness ==
    /\ returned.req.kind = "join"
    /\ returned.resp.status = 200
    /\ Cardinality(store) = 2
    /\ \E m \in store :
          /\ m._id = returned.meeting._id
          /\ returned.req.email \in SetOf(m.participants)

\* The meeting created under invite code c has been deleted by an end request.
Deleted(entry) == entry.invite_code \in endedOk

\* C16: deletion is final: in every reachable state, a meeting that an end
\* request has deleted is in the store neither under its id nor under its
\* invite code, whatever join writes came after the deletion.
C16_DeletionFinal ==
    \A entry \in createLog :
        Deleted(entry) =>
            \A m \in store : ToStr(m._id) # entry.id /\ m.invite_code # entry.invite_code

\* A join that read the meeting before its deletion has just written and
\* answered after it.
C16_Witness ==
    /\ returned.req.kind = "join"
    /\ returned.resp.status = 200
    /\ returned.req.invite_code \in endedOk
    /\ \E entry \in createLog :
          /\ entry.invite_code = returned.req.invite_code
          /\ entry.id = ToStr(returned.meeting._id)

\* C17: whenever a join returns ok, at that moment the meeting it names is
\* in the store and its stored participants contain the joining email,
\* also when an end request for that invite code runs alongside the join.
C17_JoinOkMeansJoined ==
    (returned.req.kind = "join" /\ returned.resp.status = 200) =>
        \E m \in store :
            /\ ToStr(m._id) = returned.resp.meeting_id
            /\ returned.req.email \in SetOf(m.participants)

\* This step is step l of the request r in flight.
StepOf(l, r) ==
    /\ r \in At(l)
    /\ CopiesIn(r, inflight') < CopiesIn(r, inflight)

\* Document m is what this step's join write leaves of it.
ChangedByJoin(m) ==
    \E r \in BagToSet(inflight) :
        /\ StepOf("join_write", r)
        /\ r.meeting._id = m._id
        /\ \E m2 \in store' : SameButParticipants(m, m2)

\* Document m has its status set to ended by this step's end request.
ChangedByEnd(m) ==
    \E r \in BagToSet(inflight) :
        /\ StepOf("end_update", r)
        /\ r.meeting._id = m._id
        /\ \E m2 \in store' :
              m2 = [m EXCEPT !.status = "ended", !.updated_at = m2.updated_at]

\* Document m is deleted by this step's end request.
DeletedByEnd(m) ==
    \E r \in BagToSet(inflight) :
        /\ StepOf("end_delete", r)
        /\ r.meeting._id = m._id
        /\ \A m2 \in store' : m2._id # m._id

\* The latest step answered GET / or GET /test.
HealthReturned == returned.req.kind \in {"root", "test"}

\* C14: a stored meeting changes only through a join that targets it
\* (participants, updated_at) or an end that targets it (status, then
\* deletion): every other step leaves it as it was. In particular the clock
\* passing expires_at changes no document, a join answered 410 leaves the
\* expired document in the store, and GET / and GET /test leave the store
\* as it was.
C14_OnlyJoinAndEndWrite ==
    [][/\ \A m \in store :
            m \in store' \/ ChangedByJoin(m) \/ ChangedByEnd(m) \/ DeletedByEnd(m)
       /\ now' # now => store' = store
       /\ HealthReturned' => store' = store
       /\ Answered(returned', 410, "Invite expired") =>
            \A c \in Codes :
               JoinTaken(c) =>
                  (store' = store /\ \E m \in store' : m.invite_code = c /\ m.expires_at < now')
      ]_vars

\* A join was answered 410 and the expired meeting, joined before it
\* expired, is still stored after the clock passed its expires_at.
C14_Witness ==
    /\ JoinReturned
    /\ Answered(returned, 410, "Invite expired")
    /\ \E m \in Matching(returned.req.invite_code) :
          /\ m.expires_at < now
          /\ m.created_at <= m.expires_at
          /\ m.participants # << >>

\* This step answers the join request it looked up with one of the
\* rejections 410, 400, 404.
JoinRejected ==
    /\ returned'.req.kind = "join"
    /\ returned'.resp.status \in {410, 400, 404}

\* The meeting created under invite code c is past its expires_at, or is no
\* longer stored.
Lapsed(c) ==
    /\ \E entry \in createLog : entry.invite_code = c
    /\ \A m \in Matching(c) : m.expires_at < now

\* C18: expiry is permanent. No step changes the expires_at of a stored
\* meeting and the clock never goes backwards; so a join answered 410 finds
\* its meeting lapsed, a lapsed meeting stays lapsed, and every join looked
\* up for a lapsed meeting is rejected (410, 400 or 404): after a 410 no
\* later join for that invite code succeeds. A meeting created with a
\* negative ttl_minutes (expires_at before created_at) is rejected at every
\* lookup.
C18_ExpiryPermanent ==
    [][/\ \A m \in store : \A m2 \in store' :
            m2._id = m._id => m2.expires_at = m.expires_at
       /\ now' >= now
       /\ \A c \in Codes :
            /\ Lapsed(c) => Lapsed(c)'
            /\ JoinTaken(c) =>
                  /\ Answered(returned', 410, "Invite expired") => Lapsed(c)
                  /\ Lapsed(c) => JoinRejected
                  /\ (\E m \in Matching(c) : m.expires_at < m.created_at) => JoinRejected
      ]_vars

\* A meeting took both participants while it was open; the clock then
\* passed its expires_at and a join for it has just been answered 410.
C18_Witness ==
    /\ JoinReturned
    /\ Answered(returned, 410, "Invite expired")
    /\ Lapsed(returned.req.invite_code)
    /\ \E m \in Matching(returned.req.invite_code) :
          SetOf(m.participants) = Emails

\* C12: the read and the write of a join are two steps, and the write
\* replaces the stored list by one built from the list that was read: a
\* join write is answered ok and leaves in its meeting the participants it
\* read plus its email, whatever was stored meanwhile; and a stored list
\* gains an email only by such a write (the email of the join answered ok,
\* or one of the list it read). Hence of two concurrent joins that read the
\* same list, both answered ok, the second write drops the first one's
\* email (the state of C12_Witness).
C12_JoinWriteOverwrites ==
    [][/\ \A r \in BagToSet(inflight) :
            StepOf("join_write", r) =>
               /\ returned'.req = r.req
               /\ returned'.resp.status = 200
               /\ \A m2 \in store' :
                     m2._id = r.meeting._id =>
                        SetOf(m2.participants) = SetOf(r.meeting.participants) \cup {r.req.email}
       /\ \A m2 \in store' : \A e \in SetOf(m2.participants) :
            (\A m \in store : m._id = m2._id => e \notin SetOf(m.participants))
               => \E r \in BagToSet(inflight) :
                     /\ StepOf("join_write", r)
                     /\ r.meeting._id = m2._id
                     /\ e \in SetOf(r.meeting.participants) \cup {r.req.email}
      ]_vars

\* Two joins with different emails for one active, unexpired meeting have
\* both been answered ok: the second write has just replaced the list in
\* which the first write had put the first email, and the meeting, still
\* stored, holds only the second.
C12_Witness ==
    /\ JoinReturned
    /\ returned.resp.status = 200
    /\ \E m \in store :
          /\ m._id = returned.meeting._id
          /\ m.status = "active"
          /\ ~(m.expires_at < now)
          /\ SetOf(m.participants) = {returned.req.email}
          /\ returned.dropped # {}
          /\ returned.req.email \notin returned.dropped

====
